---- MODULE Spec2Model ----
(***************************************************************************)
(* PDF service actor (apps/amnesia-server/src/pdf/service.rs).             *)
(*                                                                         *)
(* PdfService is a cloneable handle holding the producer side of an        *)
(* unbounded mpsc queue of PdfJob values.  PdfActor owns the consumer      *)
(* side, the PDFium instance and the registry (parsers, pdfs), and runs    *)
(* on one dedicated thread.  Every public call creates a oneshot reply     *)
(* channel, sends one job and awaits the reply.                            *)
(***************************************************************************)
EXTENDS Integers, Sequences, FiniteSets, TLC

\* ---------------------------------------------------------------- bounds
MaxCalls == 2      \* number of PdfService calls issued in one behaviour
MaxHandles == 2    \* number of PdfService clones alive at one time
MaxKeys == 1       \* book_id values are 1..MaxKeys
MaxDocs == 1       \* well-formed documents are 1..MaxDocs
MaxPage == 1       \* page arguments are 0..MaxPage

\* ------------------------------------------------------ program constants
NumCandidates == 4 \* bind_to_library x3, bind_to_system_library

Keys == 1..MaxKeys
\* input data of an open job: 1..MaxDocs parse; 0 cannot be loaded by the
\* parser constructor; -1 loads but fails in parse()
Inputs == (-1)..MaxDocs
Pages == 0..MaxPage

OpenKinds == {"ParseFromBytes", "ParseFromPath"}
ReadKinds == {"RenderPage", "RenderThumbnail", "GetTextLayer", "Search",
              "GetPageText", "GetPageDimensions"}
PdfJob == OpenKinds \cup ReadKinds \cup {"HasPdf", "RemovePdf", "ListPdfs", "Shutdown"}

\* PdfServiceError variants
PdfServiceError == {"InitError", "ActorStopped", "SendError", "RecvError", "ParseError"}

VARIABLES
    startResult,   \* result of PdfService::start: "none" before the call, then "Ok"
    handles,       \* number of live PdfService clones (each holds a job_tx)
    queue,         \* jobs in the mpsc channel, oldest first (job = index into calls)
    rxOpen,        \* job_rx has not been dropped
    calls,         \* one record per PdfService call issued, in issue order
    actorPc,       \* position of the actor thread
    running,       \* jobs whose match arm has started and not finished
    pdfium,        \* "none" | "live" | "destroyed"
    arc,           \* strong count of Arc<Pdfium>
    parsers,       \* PdfActor.parsers: book_id -> document held by the PdfParser
    pdfs,          \* PdfActor.pdfs: book_id -> document the metadata was derived from
    initCount,     \* number of Pdfium::new calls
    destroyCount,  \* number of Pdfium drops (FPDF_DestroyLibrary)
    initFailed,    \* PdfActor::new returned InitError
    enq,           \* history: jobs in the order they entered the queue
    started,       \* history: jobs in the order their match arm started
    finished,      \* history: jobs in the order their match arm finished
    touched,       \* history: threads that created or destroyed the singleton or ran a match arm
    parserCalls,   \* history: jobs whose handler called a method of a stored PdfParser
    actors,        \* the actors of every PdfService::start of the process (see StartsSpec)
    bind,          \* one run of the binding chain of PdfActor::new (see BindSpec)
    svg            \* one text layer and the document generated from it (see SvgSpec)

vars == <<startResult, handles, queue, rxOpen, calls, actorPc, running,
          pdfium, arc, parsers, pdfs, initCount, destroyCount, initFailed,
          enq, started, finished, touched, parserCalls, actors, bind, svg>>

\* ------------------------------------------------------------ value shapes
NoVal == [ok |-> FALSE, err |-> "none", doc |-> 0, arg |-> 0, keys |-> <<>>]
OkVal(what, d, a) == [ok |-> TRUE, err |-> what, doc |-> d, arg |-> a, keys |-> <<>>]
ErrVal(e) == [ok |-> FALSE, err |-> e, doc |-> 0, arg |-> 0, keys |-> <<>>]
KeysVal(ks) == [ok |-> TRUE, err |-> "keys", doc |-> 0, arg |-> 0, keys |-> ks]
BoolVal(b) == [ok |-> TRUE, err |-> "bool", doc |-> (IF b THEN 1 ELSE 0), arg |-> 0, keys |-> <<>>]
UnitVal == [ok |-> TRUE, err |-> "unit", doc |-> 0, arg |-> 0, keys |-> <<>>]

NoResult == [tag |-> "none", val |-> NoVal]

SeqToSet(s) == {s[i] : i \in 1..Len(s)}

\* ------------------------------------------------- PdfParser (super::parser)
\* PdfParser::from_bytes_with_pdfium / from_path_with_pdfium succeed on every
\* input except the unloadable one
ParserNew(input) == input # 0
\* PdfParser::parse succeeds on the well-formed documents
ParserParse(input) == input >= 1
\* render_page, render_thumbnail, get_text_layer, search, get_page_text,
\* get_page_dimensions of a loaded parser: page 0 exists, later pages do not
ParserRead(kind, doc, page) ==
    IF page = 0 THEN OkVal(kind, doc, page) ELSE ErrVal("PageOutOfRange")

\* ------------------------------------------------------------ HashMap ops
MapInsert_KeepFirst(m, k, v) ==
    IF k \in DOMAIN m THEN m ELSE [x \in (DOMAIN m) \cup {k} |-> IF x = k THEN v ELSE m[x]]
MapRemove_Keep(m, k) == m
MapRemove_Clear(m, k) == [x \in {} |-> 0]

\* HashMap::insert replaces the value of a present key; HashMap::remove of an
\* absent key does nothing
MapInsert(m, k, v) == [x \in (DOMAIN m) \cup {k} |-> IF x = k THEN v ELSE m[x]]
MapRemove(m, k) == [x \in (DOMAIN m) \ {k} |-> m[x]]
EmptyMap == [x \in {} |-> 0]

\* ------------------------------------------------------------------- Init
\* no binding chain has run
NoBind == [res |-> <<>>, done |-> FALSE, used |-> 0, tried |-> <<>>, err |-> "none"]
\* no text layer, nothing generated
NoSvg == [layer |-> [width |-> 0, height |-> 0, items |-> <<>>],
          fn |-> "none",
          out |-> [viewBox |-> <<0, 0>>, elems |-> <<>>]]

InitService ==
    /\ startResult = "none"
    /\ handles = 0
    /\ queue = <<>>
    /\ rxOpen = FALSE
    /\ calls = <<>>
    /\ actorPc = "unspawned"
    /\ running = {}
    /\ pdfium = "none"
    /\ arc = 0
    /\ parsers = EmptyMap
    /\ pdfs = EmptyMap
    /\ initCount = 0
    /\ destroyCount = 0
    /\ initFailed = FALSE
    /\ enq = <<>>
    /\ started = <<>>
    /\ finished = <<>>
    /\ touched = {}
    /\ parserCalls = {}
    /\ actors = <<>>

Init == InitService /\ bind = NoBind /\ svg = NoSvg

actorVars == <<actorPc, running, pdfium, arc, parsers, pdfs, initCount, destroyCount,
               initFailed, started, finished, touched, parserCalls, actors, bind, svg>>

\* ------------------------------------------------------------- PdfService
\* PdfService::start: create the channel, spawn the actor thread, return Ok
Start ==
    /\ startResult = "none"
    /\ startResult' = "Ok"
    /\ handles' = 1
    /\ rxOpen' = TRUE
    /\ actorPc' = "spawned"
    /\ UNCHANGED <<queue, calls, running, pdfium, arc, parsers, pdfs, initCount,
                   destroyCount, initFailed, enq, started, finished, touched,
                   parserCalls, actors, bind, svg>>

\* #[derive(Clone)]: a new handle sharing the same job_tx
Clone ==
    /\ handles >= 1
    /\ handles < MaxHandles
    /\ handles' = handles + 1
    /\ UNCHANGED <<startResult, queue, rxOpen, calls, enq>>
    /\ UNCHANGED actorVars

\* a handle is dropped.  A pending call borrows its handle (&self) until it
\* returns, so the last handle cannot go while a call is pending on it; the
\* other clones are not borrowed when the pending calls went through one.
DropHandle ==
    /\ handles >= 1
    /\ handles = 1 => \A c \in 1..Len(calls) : calls[c].caller # "awaiting"
    /\ handles' = handles - 1
    /\ UNCHANGED <<startResult, queue, rxOpen, calls, enq>>
    /\ UNCHANGED actorVars

\* the actor has left its loop (Shutdown, or queue closed) or never entered it
LoopExited == actorPc \in {"exited", "drop_parsers", "drop_pdfs", "drop_rx", "done"}

SendOk_ClosedAccepts == TRUE

\* UnboundedSender::send succeeds as long as the receiver has not been dropped
SendOk == rxOpen

SendFailure_AsAck == [tag |-> "Ok", val |-> UnitVal]

\* .map_err(|e| PdfServiceError::SendError(e.to_string()))
SendFailure == [tag |-> "SendError", val |-> NoVal]
RecvFailure_AsParseError == [tag |-> "ParseError", val |-> NoVal]

\* .map_err(|e| PdfServiceError::RecvError(e.to_string()))
RecvFailure == [tag |-> "RecvError", val |-> NoVal]
\* .map_err(PdfServiceError::ParseError) on the Result carried by the reply
MapParseResult(v) == IF v.ok THEN [tag |-> "Ok", val |-> v] ELSE [tag |-> "ParseError", val |-> v]
\* has_pdf, remove_pdf, list_pdfs, shutdown return the reply as it is
MapPlain(v) == [tag |-> "Ok", val |-> v]

\* the part every public method shares up to the await: make the oneshot
\* channel, send the job, return SendError if the send fails
ServiceCallN(limit, kind, key, arg) ==
    /\ startResult = "Ok"
    /\ handles >= 1
    /\ Len(calls) < limit
    /\ LET id == Len(calls) + 1
           call == [kind |-> kind, key |-> key, arg |-> arg,
                    late |-> LoopExited,
                    tx |-> "pending", val |-> NoVal,
                    caller |-> "awaiting", result |-> NoResult]
       IN  IF SendOk
           THEN /\ calls' = Append(calls, call)
                /\ queue' = Append(queue, id)
                /\ enq' = Append(enq, id)
           ELSE /\ calls' = Append(calls, [call EXCEPT !.tx = "dropped",
                                                       !.caller = "returned",
                                                       !.result = SendFailure])
                /\ UNCHANGED <<queue, enq>>
    /\ UNCHANGED <<startResult, handles, rxOpen>>
    /\ UNCHANGED actorVars

ServiceCall(kind, key, arg) == ServiceCallN(MaxCalls, kind, key, arg)

parse_from_bytes == \E k \in Keys, d \in Inputs : ServiceCall("ParseFromBytes", k, d)
parse_from_path == \E k \in Keys, d \in Inputs : ServiceCall("ParseFromPath", k, d)
render_page == \E k \in Keys, p \in Pages : ServiceCall("RenderPage", k, p)
render_thumbnail == \E k \in Keys, p \in Pages : ServiceCall("RenderThumbnail", k, p)
get_text_layer == \E k \in Keys, p \in Pages : ServiceCall("GetTextLayer", k, p)
search == \E k \in Keys, p \in Pages : ServiceCall("Search", k, p)
get_page_text == \E k \in Keys, p \in Pages : ServiceCall("GetPageText", k, p)
get_page_dimensions == \E k \in Keys, p \in Pages : ServiceCall("GetPageDimensions", k, p)
has_pdf == \E k \in Keys : ServiceCall("HasPdf", k, 0)
remove_pdf == \E k \in Keys : ServiceCall("RemovePdf", k, 0)
list_pdfs == ServiceCall("ListPdfs", 0, 0)
shutdown == ServiceCall("Shutdown", 0, 0)

\* response_rx.await completes: with the reply, or with RecvError when the
\* reply sender was dropped without a reply
AwaitReply(c) ==
    /\ c \in 1..Len(calls)
    /\ calls[c].caller = "awaiting"
    /\ calls[c].tx \in {"sent", "dropped"}
    /\ calls' = [calls EXCEPT ![c].caller = "returned",
                              ![c].result =
                                  IF calls[c].tx = "dropped" THEN RecvFailure
                                  ELSE IF calls[c].kind \in OpenKinds \cup ReadKinds
                                       THEN MapParseResult(calls[c].val)
                                       ELSE MapPlain(calls[c].val)]
    /\ UNCHANGED <<startResult, handles, queue, rxOpen, enq>>
    /\ UNCHANGED actorVars

\* the caller stops waiting: the future of the call is dropped, and the
\* oneshot receiver with it
Abandon(c) ==
    /\ c \in 1..Len(calls)
    /\ calls[c].caller = "awaiting"
    /\ calls' = [calls EXCEPT ![c].caller = "abandoned"]
    /\ UNCHANGED <<startResult, handles, queue, rxOpen, enq>>
    /\ UNCHANGED actorVars

\* --------------------------------------------------------------- PdfActor
serviceVars == <<startResult, handles>>

\* the .or_else chain of PdfActor::new: candidate i is tried only when every
\* earlier candidate failed; 0 when all of them failed
RECURSIVE TryBind(_, _)
TryBind(outcome, i) ==
    IF i > NumCandidates THEN 0
    ELSE IF outcome[i] THEN i
    ELSE TryBind(outcome, i + 1)

BindChain_LastWins(outcome) ==
    IF \E i \in 1..NumCandidates : outcome[i]
    THEN CHOOSE i \in 1..NumCandidates :
             outcome[i] /\ \A x \in 1..NumCandidates : outcome[x] => x <= i
    ELSE 0

BindChain(outcome) == TryBind(outcome, 1)

\* the candidates in the order of the chain: three directories, then the
\* system library lookup
Candidates == <<"./", "/usr/lib", "/usr/local/lib", "system">>

\* the bind calls the chain makes: the closure of an or_else runs only on Err
RECURSIVE TryAttempts(_, _)
TryAttempts(outcome, i) ==
    IF i > NumCandidates THEN <<>>
    ELSE IF outcome[i] THEN <<i>>
    ELSE <<i>> \o TryAttempts(outcome, i + 1)

BindAttempts(outcome) == TryAttempts(outcome, 1)

DrainQueue_KeepsJobs(cs, q) == cs

\* dropping job_rx closes the channel and drops the jobs still queued, and
\* with each job its reply sender
DrainQueue(cs, q) ==
    [c \in DOMAIN cs |-> IF c \in SeqToSet(q) THEN [cs[c] EXCEPT !.tx = "dropped"] ELSE cs[c]]

Reply_ToNewest(cs, j, v) ==
    LET n == CHOOSE c \in DOMAIN cs :
                 cs[c].tx = "pending" /\ \A x \in DOMAIN cs : cs[x].tx = "pending" => x <= c
    IN  IF cs[n].caller = "abandoned"
        THEN [cs EXCEPT ![n].tx = "failed"]
        ELSE [cs EXCEPT ![n].tx = "sent", ![n].val = v]

\* let _ = response.send(v): a failed delivery (receiver gone) is ignored
Reply(cs, j, v) ==
    IF cs[j].caller = "abandoned"
    THEN [cs EXCEPT ![j].tx = "failed"]
    ELSE [cs EXCEPT ![j].tx = "sent", ![j].val = v]

\* the OS thread spawned by PdfService::start; it builds a current-thread
\* runtime and blocks on PdfActor::new and run
ActorThread == "actor"

HandlerThread_Pooled == "pool"

\* run calls every handler directly, so a match arm executes on the thread
\* that polls run
HandlerThread == ActorThread

ActorNew_KeepsReceiver ==
    /\ actorPc = "spawned"
    /\ \E outcome \in [1..NumCandidates -> BOOLEAN] :
         IF BindChain(outcome) = 0
         THEN /\ initFailed' = TRUE
              /\ actorPc' = "done"
              /\ UNCHANGED <<pdfium, arc, initCount, touched, rxOpen, calls, queue>>
         ELSE /\ pdfium' = "live"
              /\ initCount' = initCount + 1
              /\ arc' = 1
              /\ actorPc' = "run"
              /\ touched' = touched \cup {ActorThread}
              /\ UNCHANGED <<initFailed, rxOpen, calls, queue>>
    /\ UNCHANGED <<running, parsers, pdfs, destroyCount, enq, started, finished,
                   parserCalls, actors, bind, svg>>
    /\ UNCHANGED serviceVars

\* PdfActor::new on the actor thread: bind PDFium, create the singleton
ActorNew ==
    /\ actorPc = "spawned"
    /\ \E outcome \in [1..NumCandidates -> BOOLEAN] :
         IF BindChain(outcome) = 0
         THEN \* InitError: job_rx is dropped with the arguments of new
              /\ initFailed' = TRUE
              /\ rxOpen' = FALSE
              /\ calls' = DrainQueue(calls, queue)
              /\ queue' = <<>>
              /\ actorPc' = "done"
              /\ UNCHANGED <<pdfium, arc, initCount, touched>>
         ELSE /\ pdfium' = "live"
              /\ initCount' = initCount + 1
              /\ arc' = 1
              /\ actorPc' = "run"
              /\ touched' = touched \cup {ActorThread}
              /\ UNCHANGED <<initFailed, rxOpen, calls, queue>>
    /\ UNCHANGED <<running, parsers, pdfs, destroyCount, enq, started, finished,
                   parserCalls, actors, bind, svg>>
    /\ UNCHANGED serviceVars

CanRecv_Reentrant == TRUE

\* the loop awaits recv only at its head, after the previous match arm ended
CanRecv == running = {}

Pop_Second(q) ==
    IF Len(q) >= 2 THEN [job |-> q[2], rest |-> <<q[1]>> \o SubSeq(q, 3, Len(q))]
    ELSE [job |-> Head(q), rest |-> Tail(q)]

Pop_Peek(q) == [job |-> Head(q), rest |-> q]

Pop_Newest(q) == [job |-> q[Len(q)], rest |-> SubSeq(q, 1, Len(q) - 1)]

Pop_ShutdownFirst(q) ==
    IF \E i \in 1..Len(q) : calls[q[i]].kind = "Shutdown"
    THEN LET i == CHOOSE i \in 1..Len(q) : calls[q[i]].kind = "Shutdown"
         IN  [job |-> q[i], rest |-> SubSeq(q, 1, i - 1) \o SubSeq(q, i + 1, Len(q))]
    ELSE [job |-> Head(q), rest |-> Tail(q)]

\* the mpsc channel hands out the oldest job
Pop(q) == [job |-> Head(q), rest |-> Tail(q)]

\* self.job_rx.recv().await returns Some(job)
ActorRecv ==
    /\ actorPc = "run"
    /\ CanRecv
    /\ queue # <<>>
    /\ running' = running \cup {Pop(queue).job}
    /\ queue' = Pop(queue).rest
    /\ started' = Append(started, Pop(queue).job)
    /\ UNCHANGED <<rxOpen, calls, actorPc, pdfium, arc, parsers, pdfs, initCount,
                   destroyCount, initFailed, enq, finished, touched, parserCalls, actors, bind, svg>>
    /\ UNCHANGED serviceVars

RecvIsNone_NoDrain == handles = 0

\* recv yields None only when the channel is closed (every sender dropped) and
\* no job is left in it
RecvIsNone == queue = <<>> /\ handles = 0

\* self.job_rx.recv().await returns None: queue empty and every sender dropped
ActorRecvNone ==
    /\ actorPc = "run"
    /\ CanRecv
    /\ RecvIsNone
    /\ actorPc' = "exited"
    /\ UNCHANGED <<queue, rxOpen, calls, running, pdfium, arc, parsers, pdfs, initCount,
                   destroyCount, initFailed, enq, started, finished, touched,
                   parserCalls, actors, bind, svg>>
    /\ UNCHANGED serviceVars

InArm(j, kinds) ==
    /\ actorPc = "run"
    /\ j \in running
    /\ calls[j].kind \in kinds

AfterArm_NoBreak(kind) == "run"

\* where the loop goes after a match arm: back to recv, or out through break
AfterArm(kind) == IF kind = "Shutdown" THEN "exited" ELSE "run"

ArmDone(j) ==
    /\ running' = running \ {j}
    /\ finished' = Append(finished, j)
    /\ actorPc' = AfterArm(calls[j].kind)
    /\ touched' = touched \cup {HandlerThread}
    /\ UNCHANGED <<queue, rxOpen, pdfium, initCount, destroyCount, initFailed, enq, started,
                   actors, bind, svg>>
    /\ UNCHANGED serviceVars

\* handle_parse_from_bytes / handle_parse_from_path: the result
ParseResult(input) ==
    IF ~ParserNew(input) THEN ErrVal("LoadError")
    ELSE IF ~ParserParse(input) THEN ErrVal("ParseFailed")
    ELSE OkVal("meta", input, 0)

ArcAfterInsert_NoClone(k) == arc

\* the new parser holds a clone of self.pdfium; insert drops the parser it
\* replaces, and the clone that one held
ArcAfterInsert(k) == IF k \in DOMAIN parsers THEN arc ELSE arc + 1

HandleParse_InsertsFirst(j) ==
    LET k == calls[j].key
        d == calls[j].arg
        r == ParseResult(d)
    IN  /\ IF ParserNew(d)
           THEN /\ parsers' = MapInsert(parsers, k, d)
                /\ pdfs' = MapInsert(pdfs, k, d)
                /\ arc' = ArcAfterInsert(k)
           ELSE UNCHANGED <<parsers, pdfs, arc>>
        /\ calls' = Reply(calls, j, r)
        /\ UNCHANGED parserCalls
        /\ ArmDone(j)

HandleParse_SkipAbandoned(j) ==
    LET k == calls[j].key
        d == calls[j].arg
        r == ParseResult(d)
    IN  /\ IF r.ok /\ calls[j].caller # "abandoned"
           THEN /\ parsers' = MapInsert(parsers, k, d)
                /\ pdfs' = MapInsert(pdfs, k, d)
                /\ arc' = ArcAfterInsert(k)
           ELSE UNCHANGED <<parsers, pdfs, arc>>
        /\ calls' = Reply(calls, j, r)
        /\ UNCHANGED parserCalls
        /\ ArmDone(j)

\* both open handlers: the parser, parse(), then the two inserts
HandleParse(j) ==
    LET k == calls[j].key
        d == calls[j].arg
        r == ParseResult(d)
    IN  /\ IF r.ok
           THEN /\ parsers' = MapInsert(parsers, k, d)
                /\ pdfs' = MapInsert(pdfs, k, d)
                /\ arc' = ArcAfterInsert(k)
           ELSE UNCHANGED <<parsers, pdfs, arc>>
        /\ calls' = Reply(calls, j, r)
        /\ UNCHANGED parserCalls
        /\ ArmDone(j)

HandleParseFromBytes(j) == InArm(j, {"ParseFromBytes"}) /\ HandleParse(j)
HandleParseFromPath(j) == InArm(j, {"ParseFromPath"}) /\ HandleParse(j)

\* handle_render_page, handle_render_thumbnail, handle_get_text_layer,
\* handle_search, handle_get_page_text, handle_get_page_dimensions
ReadResult(kind, k, a) ==
    IF k \notin DOMAIN parsers THEN ErrVal("NotLoaded")
    ELSE ParserRead(kind, parsers[k], a)

CallsParser_Always(k) == TRUE

\* the handler reaches parser.<method>() only behind the ok_or_else(..)?
CallsParser(k) == k \in DOMAIN parsers

HandleRead_LoadsOnMiss(j) ==
    LET k == calls[j].key
        r == ReadResult(calls[j].kind, k, calls[j].arg)
    IN  /\ calls' = Reply(calls, j, r)
        /\ parserCalls' = IF CallsParser(k) THEN parserCalls \cup {j} ELSE parserCalls
        /\ parsers' = IF k \in DOMAIN parsers THEN parsers ELSE MapInsert(parsers, k, 1)
        /\ pdfs' = IF k \in DOMAIN pdfs THEN pdfs ELSE MapInsert(pdfs, k, 1)
        /\ arc' = IF k \in DOMAIN parsers THEN arc ELSE arc + 1
        /\ ArmDone(j)

HandleRead_EvictsOnError(j) ==
    LET k == calls[j].key
        r == ReadResult(calls[j].kind, k, calls[j].arg)
    IN  /\ calls' = Reply(calls, j, r)
        /\ parserCalls' = IF CallsParser(k) THEN parserCalls \cup {j} ELSE parserCalls
        /\ parsers' = IF r.ok THEN parsers ELSE MapRemove(parsers, k)
        /\ pdfs' = IF r.ok THEN pdfs ELSE MapRemove(pdfs, k)
        /\ arc' = IF ~r.ok /\ k \in DOMAIN parsers THEN arc - 1 ELSE arc
        /\ ArmDone(j)

\* the six read handlers: look the parser up, call its method, reply
HandleRead(j) ==
    /\ calls' = Reply(calls, j, ReadResult(calls[j].kind, calls[j].key, calls[j].arg))
    /\ parserCalls' = IF CallsParser(calls[j].key) THEN parserCalls \cup {j} ELSE parserCalls
    /\ UNCHANGED <<parsers, pdfs, arc>>
    /\ ArmDone(j)

HandleRenderPage(j) == InArm(j, {"RenderPage"}) /\ HandleRead(j)
HandleRenderThumbnail(j) == InArm(j, {"RenderThumbnail"}) /\ HandleRead(j)
HandleGetTextLayer(j) == InArm(j, {"GetTextLayer"}) /\ HandleRead(j)
HandleSearch(j) == InArm(j, {"Search"}) /\ HandleRead(j)
HandleGetPageText(j) == InArm(j, {"GetPageText"}) /\ HandleRead(j)
HandleGetPageDimensions(j) == InArm(j, {"GetPageDimensions"}) /\ HandleRead(j)

HandleHasPdf(j) ==
    /\ InArm(j, {"HasPdf"})
    /\ calls' = Reply(calls, j, BoolVal(calls[j].key \in DOMAIN parsers))
    /\ UNCHANGED <<parsers, pdfs, arc, parserCalls>>
    /\ ArmDone(j)

HandleRemovePdf_ParsersOnly(j) ==
    /\ InArm(j, {"RemovePdf"})
    /\ parsers' = MapRemove(parsers, calls[j].key)
    /\ arc' = IF calls[j].key \in DOMAIN parsers THEN arc - 1 ELSE arc
    /\ calls' = Reply(calls, j, UnitVal)
    /\ UNCHANGED <<pdfs, parserCalls>>
    /\ ArmDone(j)

\* the RemovePdf arm: both maps, then the acknowledgement
HandleRemovePdf(j) ==
    /\ InArm(j, {"RemovePdf"})
    /\ parsers' = MapRemove(parsers, calls[j].key)
    /\ pdfs' = MapRemove(pdfs, calls[j].key)
    /\ arc' = IF calls[j].key \in DOMAIN parsers THEN arc - 1 ELSE arc
    /\ calls' = Reply(calls, j, UnitVal)
    /\ UNCHANGED parserCalls
    /\ ArmDone(j)

\* self.parsers.keys().cloned().collect(): one element for each entry of the
\* map, in the iteration order of the HashMap, which is not specified
KeyOrders(m) ==
    {ids \in [1..Cardinality(DOMAIN m) -> DOMAIN m] :
        \A a \in DOMAIN ids : \A b \in DOMAIN ids : a # b => ids[a] # ids[b]}

HandleListPdfs(j) ==
    /\ InArm(j, {"ListPdfs"})
    /\ \E ids \in KeyOrders(parsers) : calls' = Reply(calls, j, KeysVal(ids))
    /\ UNCHANGED <<parsers, pdfs, arc, parserCalls>>
    /\ ArmDone(j)

HandleShutdown(j) ==
    /\ InArm(j, {"Shutdown"})
    /\ calls' = Reply(calls, j, UnitVal)
    /\ UNCHANGED <<parsers, pdfs, arc, parserCalls>>
    /\ ArmDone(j)

Release_Unshared(n) ==
    /\ arc' = arc - n
    /\ pdfium' = IF n > 0 THEN "destroyed" ELSE pdfium
    /\ destroyCount' = destroyCount + n

\* run has returned and self is dropped field by field, in declaration
\* order: pdfium, parsers, pdfs, job_rx.  The singleton is torn down by the
\* drop that releases the last Arc<Pdfium>.
Release(n) ==
    /\ arc' = arc - n
    /\ pdfium' = IF n > 0 /\ arc - n = 0 THEN "destroyed" ELSE pdfium
    /\ destroyCount' = IF n > 0 /\ arc - n = 0 THEN destroyCount + 1 ELSE destroyCount

\* the drops of self run where run returns: on the actor thread
DropFrame ==
    /\ touched' = touched \cup {ActorThread}
    /\ UNCHANGED <<parserCalls, actors, bind, svg>>

DropPdfium ==
    /\ actorPc = "exited"
    /\ running = {}
    /\ Release(1)
    /\ actorPc' = "drop_parsers"
    /\ DropFrame
    /\ UNCHANGED <<queue, rxOpen, calls, running, parsers, pdfs, initCount, initFailed,
                   enq, started, finished>>
    /\ UNCHANGED serviceVars

\* the parsers map is dropped entry by entry, each parser releasing its clone
DropParsers ==
    /\ actorPc = "drop_parsers"
    /\ IF DOMAIN parsers = {}
       THEN /\ actorPc' = "drop_pdfs"
            /\ UNCHANGED <<parsers, arc, pdfium, destroyCount>>
       ELSE \E k \in DOMAIN parsers :
               /\ parsers' = MapRemove(parsers, k)
               /\ Release(1)
               /\ actorPc' = IF DOMAIN parsers = {k} THEN "drop_pdfs" ELSE "drop_parsers"
    /\ DropFrame
    /\ UNCHANGED <<queue, rxOpen, calls, running, pdfs, initCount, initFailed,
                   enq, started, finished>>
    /\ UNCHANGED serviceVars

DropPdfs ==
    /\ actorPc = "drop_pdfs"
    /\ pdfs' = EmptyMap
    /\ actorPc' = "drop_rx"
    /\ DropFrame
    /\ UNCHANGED <<queue, rxOpen, calls, running, pdfium, arc, parsers, initCount,
                   destroyCount, initFailed, enq, started, finished>>
    /\ UNCHANGED serviceVars

DropRx ==
    /\ actorPc = "drop_rx"
    /\ rxOpen' = FALSE
    /\ calls' = DrainQueue(calls, queue)
    /\ queue' = <<>>
    /\ actorPc' = "done"
    /\ DropFrame
    /\ UNCHANGED <<running, pdfium, arc, parsers, pdfs, initCount, destroyCount,
                   initFailed, enq, started, finished>>
    /\ UNCHANGED serviceVars

\* ------------------------------------------------------------------- Next
CallIds == 1..MaxCalls

ServiceStep ==
    \/ Start
    \/ Clone
    \/ DropHandle
    \/ parse_from_bytes
    \/ parse_from_path
    \/ render_page
    \/ render_thumbnail
    \/ get_text_layer
    \/ search
    \/ get_page_text
    \/ get_page_dimensions
    \/ has_pdf
    \/ remove_pdf
    \/ list_pdfs
    \/ shutdown
    \/ \E c \in CallIds : Abandon(c)

CallerStep == \E c \in CallIds : AwaitReply(c)

ActorStep ==
    \/ ActorNew
    \/ ActorRecv
    \/ ActorRecvNone
    \/ \E j \in CallIds : HandleParseFromBytes(j)
    \/ \E j \in CallIds : HandleParseFromPath(j)
    \/ \E j \in CallIds : HandleRenderPage(j)
    \/ \E j \in CallIds : HandleRenderThumbnail(j)
    \/ \E j \in CallIds : HandleGetTextLayer(j)
    \/ \E j \in CallIds : HandleSearch(j)
    \/ \E j \in CallIds : HandleGetPageText(j)
    \/ \E j \in CallIds : HandleGetPageDimensions(j)
    \/ \E j \in CallIds : HandleHasPdf(j)
    \/ \E j \in CallIds : HandleRemovePdf(j)
    \/ \E j \in CallIds : HandleListPdfs(j)
    \/ \E j \in CallIds : HandleShutdown(j)
    \/ DropPdfium
    \/ DropParsers
    \/ DropPdfs
    \/ DropRx

Next == ServiceStep \/ CallerStep \/ ActorStep

Spec == Init /\ [][Next]_vars

\* the actor thread is scheduled and every pending await is polled again
FairSpec == Spec /\ WF_vars(ActorStep) /\ WF_vars(CallerStep)

TypeOK ==
    /\ startResult \in {"none", "Ok"}
    /\ handles \in 0..MaxHandles
    /\ Len(calls) <= MaxCalls
    /\ running \subseteq 1..Len(calls)
    /\ pdfium \in {"none", "live", "destroyed"}
    /\ actorPc \in {"unspawned", "spawned", "run", "exited", "drop_parsers",
                    "drop_pdfs", "drop_rx", "done"}

\* ================================================================= claims
Issued(c) == c \in 1..Len(calls)
Enqueued(c) == c \in SeqToSet(enq)
Executed(c) == c \in SeqToSet(finished)
Returned(c) == Issued(c) /\ calls[c].caller = "returned"
\* the actor replied, or tried to and found the caller gone
ReplySent(c) == Issued(c) /\ calls[c].tx \in {"sent", "failed"}
TransportKinds == {"SendError", "RecvError"}

\* C1: jobs are started in the order they entered the queue, each after the
\* one before it has finished, and none is skipped, repeated or merged
C1_FifoExecution ==
    /\ Len(started) <= Len(enq)
    /\ \A i \in 1..Len(started) : started[i] = enq[i]
    /\ Len(finished) <= Len(started)
    /\ Len(started) <= Len(finished) + 1
    /\ \A i \in 1..Len(finished) : finished[i] = started[i]

\* two jobs of different callers were both executed
C1_Witness ==
    /\ Len(finished) >= 2
    /\ Len(enq) >= 2

\* C2: at most one match arm of the actor is in progress at any time
C2_AtMostOneActive == Cardinality(running) <= 1

\* one job is being handled while another caller's job waits in the queue
C2_Witness ==
    /\ Cardinality(running) = 1
    /\ queue # <<>>
    /\ \A c \in 1..Len(calls) : calls[c].caller = "awaiting"

\* C3: when the acknowledgement of a Shutdown job has been sent, every job
\* enqueued before it has been executed and answered
C3_AckAfterEarlierJobs ==
    \A s \in 1..Len(calls) :
        (calls[s].kind = "Shutdown" /\ ReplySent(s)) =>
            \A j \in 1..(s - 1) : Enqueued(j) => (Executed(j) /\ ReplySent(j))

\* a Shutdown was acknowledged behind an earlier job
C3_Witness ==
    \E s \in 1..Len(calls) :
        /\ calls[s].kind = "Shutdown"
        /\ ReplySent(s)
        /\ \E j \in 1..(s - 1) : Enqueued(j) /\ calls[j].kind # "Shutdown"

\* C4: a job issued behind an enqueued Shutdown job is never started or
\* answered by the actor, and what its caller gets is a transport error
C4_NothingRunsAfterShutdown ==
    \A s \in 1..Len(calls) : \A j \in 1..Len(calls) :
        (calls[s].kind = "Shutdown" /\ Enqueued(s) /\ s < j) =>
            /\ j \notin SeqToSet(started)
            /\ ~ReplySent(j)
            /\ Returned(j) => calls[j].result.tag \in TransportKinds

\* a job was enqueued behind a Shutdown that has since been acknowledged, and
\* its caller has got the answer
C4_Witness ==
    \E s \in 1..Len(calls) : \E j \in 1..Len(calls) :
        /\ calls[s].kind = "Shutdown" /\ ReplySent(s) /\ s < j
        /\ calls[j].kind # "Shutdown"
        /\ Enqueued(j)
        /\ Returned(j)

\* a call issued after the actor left its loop
IsLate(c) == Issued(c) /\ calls[c].late
\* the call is over for its caller: it returned an error, or the caller left
FailedOrLeft(c) ==
    /\ Issued(c)
    /\ \/ calls[c].caller = "abandoned"
       \/ calls[c].caller = "returned" /\ calls[c].result.tag \in TransportKinds

\* C5: a call issued after the actor has stopped eventually returns an error
\* to its caller, whether or not the receiver was already dropped at the send
C5_LateCallsReturnError == \A c \in CallIds : IsLate(c) ~> FailedOrLeft(c)

\* a call made after a Shutdown was acknowledged, and enqueued because the
\* receiver was not dropped yet, has returned its error
C5_Witness ==
    \E b \in 1..Len(calls) :
        /\ IsLate(b) /\ Enqueued(b) /\ Returned(b)
        /\ calls[b].result.tag = "RecvError"
        /\ \E s \in 1..(b - 1) : calls[s].kind = "Shutdown" /\ ReplySent(s)

\* C6: every shutdown call comes back, also when there are two of them
C6_ShutdownsReturn ==
    \A c \in CallIds :
        (Issued(c) /\ calls[c].kind = "Shutdown") ~> (Issued(c) /\ calls[c].caller # "awaiting")

\* two shutdown calls were both enqueued and both have returned
C6_Witness ==
    /\ Len(calls) >= 2
    /\ \A c \in 1..2 : calls[c].kind = "Shutdown" /\ Enqueued(c) /\ Returned(c)

\* a shutdown call issued after an earlier Shutdown was acknowledged and the
\* loop was left
SecondShutdown(c) ==
    /\ Issued(c)
    /\ calls[c].kind = "Shutdown"
    /\ calls[c].late
    /\ \E s \in 1..(c - 1) : calls[s].kind = "Shutdown" /\ ReplySent(s)

\* C7 as claimed: the second shutdown call returns an acknowledgement, like
\* the first
C7_SecondShutdownAcknowledged ==
    \A c \in 1..Len(calls) :
        (SecondShutdown(c) /\ Returned(c)) => calls[c].result.tag = "Ok"

\* C7 amended: the second shutdown call is never acknowledged and never
\* reaches the actor; it returns a transport error, and once the receiver is
\* dropped its error is there to be returned without waiting
C7_SecondShutdownFails ==
    \A c \in 1..Len(calls) :
        SecondShutdown(c) =>
            /\ ~ReplySent(c)
            /\ c \notin SeqToSet(started)
            /\ Returned(c) => calls[c].result.tag \in TransportKinds
            /\ (Returned(c) /\ ~Enqueued(c)) => calls[c].result.tag = "SendError"
            /\ (~rxOpen /\ calls[c].caller = "awaiting") => calls[c].tx = "dropped"

\* a second shutdown call made after the actor thread finished has returned
C7_Witness ==
    \E c \in 1..Len(calls) :
        /\ SecondShutdown(c)
        /\ Returned(c)
        /\ ~Enqueued(c)

\* the call failed in transport: its reply sender went away without a reply
TransportFailed(c) == Returned(c) /\ calls[c].tx = "dropped"

\* C8 as claimed: all transport failures are reported as one error kind
C8_SingleTransportKind ==
    \A a \in 1..Len(calls) : \A b \in 1..Len(calls) :
        (TransportFailed(a) /\ TransportFailed(b)) =>
            calls[a].result.tag = calls[b].result.tag

\* C8 amended: a transport failure is reported as SendError when the send
\* failed and as RecvError when the reply sender was dropped; neither is
\* produced for a reply of the actor, and ParseError only for a reply that
\* carries a resource error
C8_TransportKindsApart ==
    \A c \in 1..Len(calls) :
        Returned(c) =>
            /\ TransportFailed(c) => calls[c].result.tag \in TransportKinds
            /\ calls[c].result.tag = "SendError" <=> ~Enqueued(c)
            /\ calls[c].result.tag = "RecvError" <=> (Enqueued(c) /\ calls[c].tx = "dropped")
            /\ calls[c].tx = "sent" => calls[c].result.tag \in {"Ok", "ParseError"}
            /\ calls[c].result.tag = "ParseError" <=> (calls[c].tx = "sent" /\ ~calls[c].val.ok)

\* one caller failed at the send and another on the dropped reply channel
C8_Witness ==
    \E a \in 1..Len(calls) : \E b \in 1..Len(calls) :
        /\ TransportFailed(a) /\ ~Enqueued(a)
        /\ TransportFailed(b) /\ Enqueued(b)

\* C9 as claimed: when every binding candidate fails, start has failed and
\* there is no handle
C9_InitFailureFailsStart ==
    initFailed => (startResult # "Ok" /\ handles = 0)

\* C10: the singleton is created once, before any job, and destroyed once,
\* after the loop; handlers run only while it is alive
C10_StateOk ==
    /\ initCount <= 1
    /\ destroyCount <= 1
    /\ initCount = 1 <=> pdfium # "none"
    /\ destroyCount = 1 <=> pdfium = "destroyed"
    /\ initFailed => (initCount = 0 /\ started = <<>>)
    /\ started # <<>> => initCount = 1
    /\ running # {} => (pdfium = "live" /\ actorPc = "run")
    /\ actorPc = "run" => pdfium = "live"
    /\ pdfium = "destroyed" => LoopExited
    /\ (actorPc = "done" /\ ~initFailed) => (initCount = 1 /\ destroyCount = 1)

C10_SingletonOnce ==
    [][/\ C10_StateOk'
       /\ initCount' >= initCount
       /\ destroyCount' >= destroyCount
       /\ pdfium = "destroyed" => (started' = started /\ finished' = finished)]_vars

\* an actor that executed a job has torn its singleton down and finished
C10_Witness ==
    /\ actorPc = "done"
    /\ finished # <<>>
    /\ initCount = 1
    /\ destroyCount = 1

\* the registry holds a parser whose open the caller was told had succeeded
\* (no remove was ever issued)
OpenedAndKept ==
    \E j \in 1..Len(calls) :
        /\ calls[j].kind \in OpenKinds
        /\ Executed(j)
        /\ ParseResult(calls[j].arg).ok
        /\ \A r \in 1..Len(calls) : calls[r].kind # "RemovePdf"

MaxStarts == 3
MaxOpen == 2

mainVars == <<startResult, handles, queue, rxOpen, calls, actorPc, running,
              pdfium, arc, parsers, pdfs, initCount, destroyCount, initFailed,
              enq, started, finished, touched, parserCalls>>

\* start: a new channel, a new thread, Ok(Self { job_tx })
StartsStart ==
    /\ Len(actors) < MaxStarts
    /\ actors' = Append(actors, [pc |-> "spawned", pdfium |-> "none", open |-> 0])
    /\ UNCHANGED <<mainVars, bind, svg>>

\* PdfActor::new on the thread of actor i: the bind chain, then Pdfium::new
StartsActorNew(i) ==
    /\ actors[i].pc = "spawned"
    /\ \E outcome \in [1..NumCandidates -> BOOLEAN] :
         actors' = IF BindChain(outcome) = 0
                   THEN [actors EXCEPT ![i].pc = "done"]
                   ELSE [actors EXCEPT ![i].pc = "run", ![i].pdfium = "live"]
    /\ UNCHANGED <<mainVars, bind, svg>>

\* an open job of actor i that succeeds under a new key
StartsOpen(i) ==
    /\ actors[i].pc = "run"
    /\ actors[i].open < MaxOpen
    /\ actors' = [actors EXCEPT ![i].open = @ + 1]
    /\ UNCHANGED <<mainVars, bind, svg>>

\* a RemovePdf job of actor i for a loaded key
StartsRemove(i) ==
    /\ actors[i].pc = "run"
    /\ actors[i].open > 0
    /\ actors' = [actors EXCEPT ![i].open = @ - 1]
    /\ UNCHANGED <<mainVars, bind, svg>>

\* actor i leaves its loop (Shutdown job, or every handle dropped) and is
\* dropped: its parsers and its reference go, its Pdfium instance is destroyed
StartsExit(i) ==
    /\ actors[i].pc = "run"
    /\ actors' = [actors EXCEPT ![i].pc = "done", ![i].pdfium = "destroyed", ![i].open = 0]
    /\ UNCHANGED <<mainVars, bind, svg>>

StartsNext ==
    \/ StartsStart
    \/ \E i \in 1..Len(actors) : StartsActorNew(i)
    \/ \E i \in 1..Len(actors) : StartsOpen(i)
    \/ \E i \in 1..Len(actors) : StartsRemove(i)
    \/ \E i \in 1..Len(actors) : StartsExit(i)

StartsSpec == Init /\ [][StartsNext]_vars

LiveInstances == {i \in 1..Len(actors) : actors[i].pdfium = "live"}

\* C11 as claimed: whatever start, operation and shutdown calls were made,
\* at most one Pdfium instance of the process is live
C11_AtMostOneLive == Cardinality(LiveInstances) <= 1

\* ============================================ the registry of a running actor
\* One handle, an actor that bound the library, and up to MaxJobs calls of the
\* open, read and registry kinds over several keys and documents; the actions
\* are those of Spec.
MaxJobs == 3
MaxRegKeys == 2
MaxRegDocs == 2

JobIds == 1..MaxJobs
RegKeys == 1..MaxRegKeys
RegInputs == 0..MaxRegDocs

\* the state after PdfService::start and a successful PdfActor::new
RegInit ==
    /\ startResult = "Ok"
    /\ handles = 1
    /\ queue = <<>>
    /\ rxOpen = TRUE
    /\ calls = <<>>
    /\ actorPc = "run"
    /\ running = {}
    /\ pdfium = "live"
    /\ arc = 1
    /\ parsers = EmptyMap
    /\ pdfs = EmptyMap
    /\ initCount = 1
    /\ destroyCount = 0
    /\ initFailed = FALSE
    /\ enq = <<>>
    /\ started = <<>>
    /\ finished = <<>>
    /\ touched = {ActorThread}
    /\ parserCalls = {}
    /\ actors = <<>>
    /\ bind = NoBind
    /\ svg = NoSvg

RegOpen == \E kind \in OpenKinds : \E k \in RegKeys : \E d \in RegInputs :
               ServiceCallN(MaxJobs, kind, k, d)
RegRead == \E kind \in ReadKinds : \E k \in RegKeys : \E p \in Pages :
               ServiceCallN(MaxJobs, kind, k, p)
RegHasPdf == \E k \in RegKeys : ServiceCallN(MaxJobs, "HasPdf", k, 0)
RegRemovePdf == \E k \in RegKeys : ServiceCallN(MaxJobs, "RemovePdf", k, 0)
RegListPdfs == ServiceCallN(MaxJobs, "ListPdfs", 0, 0)

RegNext ==
    \/ RegOpen
    \/ RegRead
    \/ RegHasPdf
    \/ RegRemovePdf
    \/ RegListPdfs
    \/ \E c \in JobIds : AwaitReply(c)
    \/ ActorRecv
    \/ \E j \in JobIds : HandleParseFromBytes(j)
    \/ \E j \in JobIds : HandleParseFromPath(j)
    \/ \E j \in JobIds : HandleRenderPage(j)
    \/ \E j \in JobIds : HandleRenderThumbnail(j)
    \/ \E j \in JobIds : HandleGetTextLayer(j)
    \/ \E j \in JobIds : HandleSearch(j)
    \/ \E j \in JobIds : HandleGetPageText(j)
    \/ \E j \in JobIds : HandleGetPageDimensions(j)
    \/ \E j \in JobIds : HandleHasPdf(j)
    \/ \E j \in JobIds : HandleRemovePdf(j)
    \/ \E j \in JobIds : HandleListPdfs(j)

RegSpec == RegInit /\ [][RegNext]_vars

\* ------------------------------------------------ claims about the registry
\* the caller of an open was answered with the metadata of a document
OpenSucceeded(c) ==
    /\ calls[c].kind \in OpenKinds
    /\ calls[c].tx = "sent"
    /\ calls[c].val.ok

\* job c, if it changed what is stored under key k at all, is a successful
\* open of k or a remove of k
Rewrites(c, k) ==
    /\ calls[c].key = k
    /\ OpenSucceeded(c) \/ calls[c].kind = "RemovePdf"

\* none of the jobs finished strictly between positions b and p rewrote k
Untouched(k, b, p) == \A q \in (b + 1)..(p - 1) : ~Rewrites(finished[q], k)

\* the document that the claims expect under key k after the first n finished
\* jobs (0: none): that of the last successful open of k, unless a remove of
\* k came behind it
RECURSIVE Loaded(_, _)
Loaded(k, n) ==
    IF n = 0 THEN 0
    ELSE LET c == finished[n]
         IN  IF calls[c].key = k /\ OpenSucceeded(c) THEN calls[c].val.doc
             ELSE IF calls[c].key = k /\ calls[c].kind = "RemovePdf" THEN 0
             ELSE Loaded(k, n - 1)

\* position b of finished holds a successful open of a key that an earlier
\* successful open had already loaded
SecondOpen(b) ==
    /\ OpenSucceeded(finished[b])
    /\ \E a \in 1..(b - 1) :
         /\ OpenSucceeded(finished[a])
         /\ calls[finished[a]].key = calls[finished[b]].key

\* C14: after a second successful open of a key, the open itself is answered
\* with the second document's metadata, every later read of the key is
\* answered from the second document, has_pdf says true, and both maps hold
\* the second document under the key, until the key is rewritten again
C14_SecondOpenReplaces ==
    \A b \in 1..Len(finished) :
        SecondOpen(b) =>
            LET k == calls[finished[b]].key
                d == calls[finished[b]].arg
            IN  /\ calls[finished[b]].val = OkVal("meta", d, 0)
                /\ \A p \in (b + 1)..Len(finished) :
                     LET c == calls[finished[p]]
                     IN  (Untouched(k, b, p) /\ c.key = k) =>
                            /\ c.kind \in ReadKinds => c.val = ParserRead(c.kind, d, c.arg)
                            /\ c.kind = "HasPdf" => c.val = BoolVal(TRUE)
                /\ Untouched(k, b, Len(finished) + 1) =>
                     /\ k \in DOMAIN parsers /\ parsers[k] = d
                     /\ k \in DOMAIN pdfs /\ pdfs[k] = d

\* two different documents were opened under one key, and a read of the key
\* behind them has returned data of the second
C14_Witness ==
    /\ Len(finished) = 3
    /\ SecondOpen(2)
    /\ calls[finished[1]].arg # calls[finished[2]].arg
    /\ calls[finished[3]].kind \in ReadKinds
    /\ calls[finished[3]].key = calls[finished[2]].key
    /\ Returned(finished[3])
    /\ calls[finished[3]].result.tag = "Ok"
    /\ calls[finished[3]].result.val.doc = calls[finished[2]].arg

\* the keys that the claims expect to be loaded after the first n finished jobs
LoadedKeys(n) == {k \in RegKeys : Loaded(k, n) # 0}

\* C15: has_pdf(k) answers true exactly when the last successful open of k
\* before it was not followed by a remove of k, and list_pdfs answers with
\* exactly those keys, each of them once
C15_RegistryQueries ==
    \A p \in 1..Len(finished) :
        LET c == calls[finished[p]]
        IN  /\ c.kind = "HasPdf" => c.val = BoolVal(c.key \in LoadedKeys(p - 1))
            /\ c.kind = "ListPdfs" =>
                 /\ c.val.ok
                 /\ SeqToSet(c.val.keys) = LoadedKeys(p - 1)
                 /\ Len(c.val.keys) = Cardinality(LoadedKeys(p - 1))

\* a key was opened, then removed, and has_pdf of it has returned false
C15_Witness ==
    /\ Len(finished) = 3
    /\ OpenSucceeded(finished[1])
    /\ calls[finished[2]].kind = "RemovePdf"
    /\ calls[finished[3]].kind = "HasPdf"
    /\ calls[finished[2]].key = calls[finished[1]].key
    /\ calls[finished[3]].key = calls[finished[1]].key
    /\ Returned(finished[3])
    /\ calls[finished[3]].result = MapPlain(BoolVal(FALSE))

\* C16: for a key that is not loaded (never opened, or removed since), every
\* read is answered with the "not loaded" error without a call into a
\* parser, and has_pdf is answered with false
C16_NotLoaded ==
    \A p \in 1..Len(finished) :
        LET j == finished[p]
            c == calls[j]
        IN  (c.key \in RegKeys /\ Loaded(c.key, p - 1) = 0) =>
                /\ c.kind \in ReadKinds =>
                     /\ c.val = ErrVal("NotLoaded")
                     /\ j \notin parserCalls
                     /\ Returned(j) => c.result = [tag |-> "ParseError", val |-> ErrVal("NotLoaded")]
                /\ c.kind = "HasPdf" => c.val = BoolVal(FALSE)

\* a read of a key that had been opened and removed has returned the error
C16_Witness ==
    /\ Len(finished) = 3
    /\ OpenSucceeded(finished[1])
    /\ calls[finished[2]].kind = "RemovePdf"
    /\ calls[finished[3]].kind \in ReadKinds
    /\ calls[finished[2]].key = calls[finished[1]].key
    /\ calls[finished[3]].key = calls[finished[1]].key
    /\ Returned(finished[3])
    /\ calls[finished[3]].result.val.err = "NotLoaded"

\* C17: the step that finishes a RemovePdf job of key k acknowledges it and
\* deletes the entries of k from both maps if there are any; the entries of
\* every other key stay as they are, and an absent k leaves the maps as they are
C17_RemoveFrame ==
    [][\A j \in JobIds :
          (j \in running /\ calls[j].kind = "RemovePdf" /\ finished' = Append(finished, j)) =>
              LET k == calls[j].key
              IN  /\ calls'[j].tx = "sent"
                  /\ calls'[j].val = UnitVal
                  /\ DOMAIN parsers' = DOMAIN parsers \ {k}
                  /\ DOMAIN pdfs' = DOMAIN pdfs \ {k}
                  /\ \A x \in DOMAIN parsers' : parsers'[x] = parsers[x]
                  /\ \A x \in DOMAIN pdfs' : pdfs'[x] = pdfs[x]
                  /\ k \notin DOMAIN parsers => (parsers' = parsers /\ pdfs' = pdfs)]_vars

\* with two keys loaded, one was removed and the call has returned; the
\* other key is still there
C17_Witness ==
    /\ Len(finished) = 3
    /\ OpenSucceeded(finished[1])
    /\ OpenSucceeded(finished[2])
    /\ calls[finished[1]].key # calls[finished[2]].key
    /\ calls[finished[3]].kind = "RemovePdf"
    /\ calls[finished[3]].key = calls[finished[1]].key
    /\ Returned(finished[3])
    /\ calls[finished[3]].result = MapPlain(UnitVal)
    /\ DOMAIN parsers = {calls[finished[2]].key}

\* C18: while the actor is in its loop the two maps have the same keys, and
\* the metadata under a key is that of the document of the parser under the
\* same key
C18_MapsAgree ==
    actorPc = "run" =>
        /\ DOMAIN parsers = DOMAIN pdfs
        /\ \A k \in DOMAIN parsers : pdfs[k] = parsers[k]

\* two keys hold different documents, one of them after a second open, and
\* no job is in progress
C18_Witness ==
    /\ running = {}
    /\ Len(finished) = 3
    /\ SecondOpen(3)
    /\ DOMAIN pdfs = RegKeys
    /\ \E a \in RegKeys : \E b \in RegKeys : pdfs[a] # pdfs[b]

\* ------------------------------------------- failed jobs and abandoned waits
\* this step finishes the match arm of job j
Finishes(j) == j \in running /\ finished' = Append(finished, j)

\* the reply of job j carried a resource error (an Err of PdfParseError)
ResourceError(cs, j) ==
    /\ cs[j].kind \in OpenKinds \cup ReadKinds
    /\ cs[j].tx = "sent"
    /\ ~cs[j].val.ok

\* a Shutdown job is in the queue order ahead of call c
ShutdownAhead(c) == \E s \in 1..(c - 1) : calls[s].kind = "Shutdown" /\ Enqueued(s)

\* the step that answers job j with a resource error changes the record of
\* that call only, keeps both maps, puts nothing back into the queue and goes
\* back to recv
C19_FailStep ==
    \A j \in CallIds :
        (Finishes(j) /\ ResourceError(calls', j)) =>
            /\ actorPc' = "run"
            /\ parsers' = parsers /\ pdfs' = pdfs /\ arc' = arc /\ pdfium' = pdfium
            /\ queue' = queue /\ enq' = enq /\ started' = started
            /\ \A c \in 1..Len(calls) : c # j => calls'[c] = calls[c]

\* C19: a job answered with a resource error is reported to its own caller
\* only, is never started again, leaves the registry and the loop as they
\* were, and every job enqueued behind it with no Shutdown ahead is answered
C19_FailureIsLocal ==
    /\ [][C19_FailStep]_vars
    /\ [](\A a \in 1..Len(started) : \A b \in 1..Len(started) :
             a # b => started[a] # started[b])
    /\ \A j \in CallIds : \A c \in CallIds :
         (/\ j < c /\ Issued(c) /\ ResourceError(calls, j)
          /\ Enqueued(c) /\ ~ShutdownAhead(c)) ~> ReplySent(c)

\* a read failed, and the open enqueued behind it has returned its metadata
C19_Witness ==
    /\ Len(finished) = 2
    /\ ResourceError(calls, finished[1])
    /\ Returned(finished[1])
    /\ calls[finished[1]].result.tag = "ParseError"
    /\ calls[finished[2]].kind \in OpenKinds
    /\ Returned(finished[2])
    /\ calls[finished[2]].result.tag = "Ok"

\* the step that finishes job j of a caller that has gone
C20_AbandonedStep ==
    \A j \in CallIds :
        (Finishes(j) /\ calls[j].caller = "abandoned") =>
            LET k == calls[j].key
                d == calls[j].arg
            IN  /\ calls'[j].tx = "failed"
                /\ \A c \in 1..Len(calls) : c # j => calls'[c] = calls[c]
                /\ queue' = queue
                /\ actorPc' = IF calls[j].kind = "Shutdown" THEN "exited" ELSE "run"
                /\ (calls[j].kind \in OpenKinds /\ ParserNew(d) /\ ParserParse(d)) =>
                       /\ k \in DOMAIN parsers' /\ parsers'[k] = d
                       /\ k \in DOMAIN pdfs' /\ pdfs'[k] = d
                /\ calls[j].kind = "RemovePdf" =>
                       /\ k \notin DOMAIN parsers'
                       /\ k \notin DOMAIN pdfs'
                /\ calls[j].kind \in ReadKinds \cup {"HasPdf", "ListPdfs", "Shutdown"} =>
                       /\ parsers' = parsers
                       /\ pdfs' = pdfs

\* C20: the job of a caller that stopped waiting is executed in full, the
\* failed delivery of its reply is ignored, and the loop goes on as after
\* any other job; no other call is touched
C20_AbandonedJobRuns == [][C20_AbandonedStep]_vars

\* an open whose caller had gone was executed, and has_pdf of another caller
\* has returned true
C20_Witness ==
    /\ Len(finished) = 2
    /\ calls[finished[1]].kind \in OpenKinds
    /\ calls[finished[1]].caller = "abandoned"
    /\ calls[finished[1]].tx = "failed"
    /\ calls[finished[2]].kind = "HasPdf"
    /\ Returned(finished[2])
    /\ calls[finished[2]].result = MapPlain(BoolVal(TRUE))

\* ----------------------------------------------------- consumption of jobs
NoRepeat(s) == \A a \in 1..Len(s) : \A b \in 1..Len(s) : a # b => s[a] # s[b]

\* C21 as claimed: by the time the actor thread has finished, every job that
\* was enqueued has been executed exactly once
C21_EveryJobExecutedOnce ==
    actorPc = "done" =>
        \A c \in 1..Len(calls) :
            Enqueued(c) => Cardinality({i \in 1..Len(finished) : finished[i] = c}) = 1

\* C21 amended: no job is received or executed twice and none goes back into
\* the queue; a job that entered the queue is waiting, was received, or was
\* dropped with the receiver; when the actor thread has finished, the jobs
\* executed are those enqueued before the loop was left, and the jobs behind
\* a Shutdown job or of a failed initialization were dropped unexecuted
C21_ConsumedAtMostOnce ==
    /\ NoRepeat(enq) /\ NoRepeat(queue) /\ NoRepeat(started) /\ NoRepeat(finished)
    /\ SeqToSet(started) \subseteq SeqToSet(enq)
    /\ SeqToSet(queue) \subseteq SeqToSet(enq)
    /\ SeqToSet(queue) \cap SeqToSet(started) = {}
    /\ SeqToSet(finished) \cup running = SeqToSet(started)
    /\ \A c \in 1..Len(calls) :
         Enqueued(c) =>
            \/ c \in SeqToSet(queue)
            \/ c \in SeqToSet(started)
            \/ calls[c].tx = "dropped"
    /\ actorPc = "done" =>
         \A c \in 1..Len(calls) :
            Enqueued(c) => (Executed(c) <=> (~initFailed /\ ~ShutdownAhead(c)))

\* the actor thread has finished; of two enqueued jobs the Shutdown was
\* executed and the job behind it was dropped with the queue
C21_Witness ==
    /\ actorPc = "done"
    /\ Len(enq) = 2
    /\ finished = <<enq[1]>>
    /\ calls[enq[1]].kind = "Shutdown"
    /\ calls[enq[2]].tx = "dropped"
    /\ Returned(enq[2])

\* a Shutdown job has been through its match arm
ShutdownProcessed == \E i \in 1..Len(finished) : calls[finished[i]].kind = "Shutdown"

\* every handle is gone, so the channel is closed to new jobs
QueueClosed == startResult = "Ok" /\ handles = 0

\* C22: without a processed Shutdown job the loop is left only when every
\* handle is gone and every enqueued job has been executed; with a handle
\* alive and no Shutdown job processed the loop is not left; and once every
\* handle is gone the actor leaves the loop and drops the registry and the
\* singleton
C22_ExitOnQueueClose ==
    /\ []((LoopExited /\ ~initFailed /\ ~ShutdownProcessed) =>
             /\ handles = 0
             /\ queue = <<>>
             /\ \A c \in 1..Len(calls) : Enqueued(c) => Executed(c))
    /\ []((handles >= 1 /\ ~ShutdownProcessed /\ ~initFailed) => ~LoopExited)
    /\ (QueueClosed ~> (/\ actorPc = "done"
                        /\ DOMAIN parsers = {} /\ DOMAIN pdfs = {}
                        /\ pdfium # "live"))

\* no shutdown call was made; the last handle was dropped, the job of a caller
\* that had gone was still executed, and the actor finished its teardown
C22_Witness ==
    /\ actorPc = "done"
    /\ handles = 0
    /\ pdfium = "destroyed"
    /\ \A c \in 1..Len(calls) : calls[c].kind # "Shutdown"
    /\ \E c \in 1..Len(calls) :
         /\ calls[c].kind \in OpenKinds
         /\ calls[c].caller = "abandoned"
         /\ Executed(c)

\* ======================================== the binding chain of PdfActor::new
\* what a bind_to_library / bind_to_system_library call can return: the
\* bindings, or one of two errors
BindResults == {"ok", "not_found", "load_failed"}

BindOk(res) == [i \in 1..NumCandidates |-> res[i] = "ok"]

\* any outcome of the four candidates, chain not yet run
BindInit ==
    /\ InitService
    /\ svg = NoSvg
    /\ \E r \in [1..NumCandidates -> BindResults] : bind = [NoBind EXCEPT !.res = r]

\* the chain of PdfActor::new: the first Ok is the bindings; when every
\* candidate failed, map_err wraps the error of the last one into InitError
BindRun ==
    /\ ~bind.done
    /\ bind' = [res |-> bind.res,
                done |-> TRUE,
                used |-> BindChain(BindOk(bind.res)),
                tried |-> BindAttempts(BindOk(bind.res)),
                err |-> IF BindChain(BindOk(bind.res)) = 0
                        THEN bind.res[NumCandidates] ELSE "none"]
    /\ UNCHANGED <<mainVars, actors, svg>>

BindNext == BindRun

BindSpec == BindInit /\ [][BindNext]_vars

\* C23: the candidates are tried in the order "./", "/usr/lib",
\* "/usr/local/lib", system lookup; the binding used is that of the first
\* candidate that succeeds and no later one is tried; the chain ends in
\* InitError exactly when all four fail
C23_BindOrder ==
    bind.done =>
        LET ok == {i \in 1..NumCandidates : bind.res[i] = "ok"}
            names == [i \in 1..Len(bind.tried) |-> Candidates[bind.tried[i]]]
        IN  /\ names = SubSeq(<<"./", "/usr/lib", "/usr/local/lib", "system">>,
                              1, Len(bind.tried))
            /\ bind.used = 0 <=> ok = {}
            /\ bind.err # "none" <=> ok = {}
            /\ ok # {} =>
                 /\ bind.used \in ok
                 /\ \A i \in ok : bind.used <= i
                 /\ Len(bind.tried) = bind.used
            /\ ok = {} => Len(bind.tried) = NumCandidates

\* the first two candidates failed, the third was used, and the system
\* lookup, which would have succeeded too, was not tried
C23_Witness ==
    /\ bind.done
    /\ bind.used = 3
    /\ bind.res[4] = "ok"
    /\ bind.tried = <<1, 2, 3>>

\* ================================================= svg_text.rs: the SVG layer
\* Strings are sequences of code points.  The code points used: a C0 control
\* character, tab, space, '&', '<', '>', 'a', DEL and the non-character U+FFFF.
MaxText == 2
MaxPos == 2
MaxCoord == 1
MaxItems == 1

SvgChars == {1, 9, 32, 38, 60, 62, 97, 127, 65535}
Strings(n) == UNION {[1..k -> SvgChars] : k \in 0..n}

IsAllowed_All(c) == TRUE

\* the filter of sanitize_for_xml: tab, newline, carriage return, and
\* everything from the space on
IsAllowed(c) == c = 9 \/ c = 10 \/ c = 13 \/ c >= 32

sanitize_for_xml(text) == SelectSeq(text, IsAllowed)

\* html_escape::encode_text: '&', '<' and '>' become "&amp;", "&lt;", "&gt;"
EncodeChar(c) ==
    IF c = 38 THEN <<38, 97, 109, 112, 59>>
    ELSE IF c = 60 THEN <<38, 108, 116, 59>>
    ELSE IF c = 62 THEN <<38, 103, 116, 59>>
    ELSE <<c>>

RECURSIVE encode_text(_)
encode_text(text) ==
    IF text = <<>> THEN <<>> ELSE EncodeChar(Head(text)) \o encode_text(Tail(text))

\* char::is_whitespace for the code points used; str::trim().is_empty()
IsWhitespace(c) == c \in {9, 10, 11, 12, 13, 32}
TrimIsEmpty(text) == \A i \in 1..Len(text) : IsWhitespace(text[i])

\* item.y + item.font_size * 0.85, in hundredths as "{:.2}" prints it
Baseline(y, font_size) == y * 100 + font_size * 85

\* CharPosition { char, x }; Option<Vec<CharPosition>> as [some, list]
CharPositions ==
    {[some |-> FALSE, list |-> <<>>]} \cup
    {[some |-> TRUE, list |-> l] :
        l \in UNION {[1..k -> [char : SvgChars, x : 0..MaxCoord]] : k \in 0..MaxPos}}

TextItems == [text : Strings(MaxText), x : {72}, y : {72}, font_size : {12},
              char_positions : CharPositions]

TextLayers == [width : {612}, height : {792},
               items : UNION {[1..k -> TextItems] : k \in 0..MaxItems}]

\* <text x=".." y=".." font-size="..">escaped text</text>
TextElement(item) ==
    [tag |-> "text", hasX |-> TRUE, x |-> item.x * 100,
     y |-> Baseline(item.y, item.font_size), font_size |-> item.font_size * 100,
     content |-> encode_text(sanitize_for_xml(item.text)), tspans |-> <<>>]

RECURSIVE Tspans_NoSkip(_)
Tspans_NoSkip(list) ==
    IF list = <<>> THEN <<>>
    ELSE <<[x |-> Head(list).x * 100,
            content |-> encode_text(sanitize_for_xml(<<Head(list).char>>))]>>
         \o Tspans_NoSkip(Tail(list))

\* for cp in char_positions: a position whose character is filtered away is
\* skipped, every other one gives <tspan x="..">escaped char</tspan>
RECURSIVE Tspans(_)
Tspans(list) ==
    IF list = <<>> THEN <<>>
    ELSE LET sanitized_char == sanitize_for_xml(<<Head(list).char>>)
         IN  (IF sanitized_char = <<>> THEN <<>>
              ELSE <<[x |-> Head(list).x * 100, content |-> encode_text(sanitized_char)]>>)
             \o Tspans(Tail(list))

\* <text y=".." font-size="..">tspans</text>
CharsElement(item) ==
    [tag |-> "text", hasX |-> FALSE, x |-> 0,
     y |-> Baseline(item.y, item.font_size), font_size |-> item.font_size * 100,
     content |-> <<>>, tspans |-> Tspans(item.char_positions.list)]

\* the loop of generate_svg over the items
RECURSIVE SvgElems(_)
SvgElems(items) ==
    IF items = <<>> THEN <<>>
    ELSE (IF TrimIsEmpty(Head(items).text) THEN <<>> ELSE <<TextElement(Head(items))>>)
         \o SvgElems(Tail(items))

\* the loop of generate_svg_with_chars over the items
RECURSIVE SvgCharElems(_)
SvgCharElems(items) ==
    IF items = <<>> THEN <<>>
    ELSE (IF TrimIsEmpty(Head(items).text) THEN <<>>
          ELSE IF Head(items).char_positions.some THEN <<CharsElement(Head(items))>>
          ELSE <<TextElement(Head(items))>>)
         \o SvgCharElems(Tail(items))

generate_svg(text_layer) ==
    [viewBox |-> <<text_layer.width, text_layer.height>>, elems |-> SvgElems(text_layer.items)]

generate_svg_with_chars(text_layer) ==
    [viewBox |-> <<text_layer.width, text_layer.height>>,
     elems |-> SvgCharElems(text_layer.items)]

\* any text layer, nothing generated yet
SvgInit ==
    /\ InitService
    /\ bind = NoBind
    /\ \E l \in TextLayers : svg = [NoSvg EXCEPT !.layer = l]

SvgGenerate ==
    /\ svg.fn = "none"
    /\ svg' = [svg EXCEPT !.fn = "generate_svg", !.out = generate_svg(svg.layer)]
    /\ UNCHANGED <<mainVars, actors, bind>>

SvgGenerateWithChars ==
    /\ svg.fn = "none"
    /\ svg' = [svg EXCEPT !.fn = "generate_svg_with_chars",
                          !.out = generate_svg_with_chars(svg.layer)]
    /\ UNCHANGED <<mainVars, actors, bind>>

SvgNext == SvgGenerate \/ SvgGenerateWithChars

SvgSpec == SvgInit /\ [][SvgNext]_vars

\* ---------------------------------------------------- claims about the SVG
\* a control character: C0, DEL or C1
IsControl(c) == c < 32 \/ (c >= 127 /\ c <= 159)
\* a C0 control character other than tab, newline and carriage return
IsStrippedC0(c) == c < 32 /\ c \notin {9, 10, 13}
KeepsC0Free(c) == ~IsStrippedC0(c)
NotBlank(item) == \E i \in 1..Len(item.text) : item.text[i] \notin {9, 10, 11, 12, 13, 32}

Entities == {<<38, 97, 109, 112, 59>>, <<38, 108, 116, 59>>, <<38, 103, 116, 59>>}
\* the '&' at position i of s opens one of the three entities
EntityAt(s, i) == \E e \in Entities : i + Len(e) - 1 <= Len(s) /\ SubSeq(s, i, i + Len(e) - 1) = e

\* reads escaped text back: an entity gives its character, a raw '&' gives -1
RECURSIVE Unescape(_)
Unescape(s) ==
    IF s = <<>> THEN <<>>
    ELSE IF Head(s) # 38 THEN <<Head(s)>> \o Unescape(Tail(s))
    ELSE IF ~EntityAt(s, 1) THEN <<-1>> \o Unescape(Tail(s))
    ELSE IF s[2] = 97 THEN <<38>> \o Unescape(SubSeq(s, 6, Len(s)))
    ELSE IF s[2] = 108 THEN <<60>> \o Unescape(SubSeq(s, 5, Len(s)))
    ELSE <<62>> \o Unescape(SubSeq(s, 5, Len(s)))

\* no raw '<' or '>' and no '&' that is not the start of an entity
NoRawMarkup(s) ==
    \A i \in 1..Len(s) : s[i] \notin {60, 62} /\ (s[i] = 38 => EntityAt(s, i))

\* C24 as claimed: the text content that generate_svg emits holds no raw
\* '<', '>' or '&' and no control character other than tab, newline and
\* carriage return
C24_NoMarkupNoControl ==
    svg.fn = "generate_svg" =>
        \A n \in 1..Len(svg.out.elems) :
            LET s == svg.out.elems[n].content
            IN  /\ NoRawMarkup(s)
                /\ \A i \in 1..Len(s) : IsControl(s[i]) => s[i] \in {9, 10, 13}

\* C24 amended: generate_svg emits one text element for each span that is
\* not whitespace-only, in order; its content holds no raw '<', '>' or '&'
\* and no C0 control character other than tab, newline and carriage return,
\* and read back it is the span's text without those C0 characters: every
\* character from U+0020 on, DEL and U+FFFF included, is kept
C24_EscapedC0Stripped ==
    svg.fn = "generate_svg" =>
        LET shown == SelectSeq(svg.layer.items, NotBlank)
        IN  /\ Len(svg.out.elems) = Len(shown)
            /\ \A n \in 1..Len(shown) :
                 LET s == svg.out.elems[n].content
                 IN  /\ NoRawMarkup(s)
                     /\ \A i \in 1..Len(s) : ~IsStrippedC0(s[i])
                     /\ Unescape(s) = SelectSeq(shown[n].text, KeepsC0Free)

\* a span of a control character and '<' came out as "&lt;"
C24_Witness ==
    /\ svg.fn = "generate_svg"
    /\ Len(svg.layer.items) = 1
    /\ svg.layer.items[1].text = <<1, 60>>
    /\ Len(svg.out.elems) = 1
    /\ svg.out.elems[1].content = <<38, 108, 116, 59>>

KeptPosition(cp) == ~IsStrippedC0(cp.char)

\* C25 as claimed: generate_svg_with_chars gives a span with character
\* positions one tspan for each position, in order, and a span without them
\* one text element
C25_TspanPerPosition ==
    svg.fn = "generate_svg_with_chars" =>
        LET shown == SelectSeq(svg.layer.items, NotBlank)
        IN  /\ Len(svg.out.elems) = Len(shown)
            /\ \A n \in 1..Len(shown) :
                 LET e == svg.out.elems[n]
                     cps == shown[n].char_positions
                 IN  IF cps.some
                     THEN /\ Len(e.tspans) = Len(cps.list)
                          /\ \A i \in 1..Len(cps.list) : e.tspans[i].x = cps.list[i].x * 100
                     ELSE e.hasX /\ e.tspans = <<>>

\* C25 amended: generate_svg_with_chars emits one text element for each span
\* that is not whitespace-only; for a span with character positions the
\* element has no text of its own and one tspan, with the position's x and
\* its escaped character, for each position whose character is not a
\* stripped control character, in order; the other positions are skipped.
\* A span without character positions gives the text element of generate_svg
C25_TspanPerKeptPosition ==
    svg.fn = "generate_svg_with_chars" =>
        LET shown == SelectSeq(svg.layer.items, NotBlank)
        IN  /\ Len(svg.out.elems) = Len(shown)
            /\ \A n \in 1..Len(shown) :
                 LET e == svg.out.elems[n]
                     cps == shown[n].char_positions
                     kept == SelectSeq(cps.list, KeptPosition)
                 IN  IF cps.some
                     THEN /\ ~e.hasX /\ e.content = <<>>
                          /\ Len(e.tspans) = Len(kept)
                          /\ \A i \in 1..Len(kept) :
                               /\ e.tspans[i].x = kept[i].x * 100
                               /\ NoRawMarkup(e.tspans[i].content)
                               /\ Unescape(e.tspans[i].content) = <<kept[i].char>>
                     ELSE /\ e.hasX /\ e.tspans = <<>>
                          /\ Unescape(e.content) = SelectSeq(shown[n].text, KeepsC0Free)

\* of two character positions the one with a control character was skipped
\* and the one with '<' came out as a tspan holding "&lt;"
C25_Witness ==
    /\ svg.fn = "generate_svg_with_chars"
    /\ Len(svg.layer.items) = 1
    /\ svg.layer.items[1].char_positions.some
    /\ Len(svg.layer.items[1].char_positions.list) = 2
    /\ svg.layer.items[1].char_positions.list[1].char = 1
    /\ svg.layer.items[1].char_positions.list[2].char = 60
    /\ Len(svg.out.elems) = 1
    /\ Len(svg.out.elems[1].tspans) = 1
    /\ svg.out.elems[1].tspans[1].content = <<38, 108, 116, 59>>

\* ------------------------------------------ the sequential abstract registry
\* the abstract map from key to document after call c was applied to map m
AbsApply(m, c) ==
    IF c.kind \in OpenKinds /\ c.arg >= 1
    THEN [k \in DOMAIN m \cup {c.key} |-> IF k = c.key THEN c.arg ELSE m[k]]
    ELSE IF c.kind = "RemovePdf" THEN [k \in DOMAIN m \ {c.key} |-> m[k]]
    ELSE m

\* the abstract map after the first n jobs of the queue order, one at a time
RECURSIVE AbsState(_)
AbsState(n) == IF n = 0 THEN EmptyMap ELSE AbsApply(AbsState(n - 1), calls[enq[n]])

\* reply v is what call c gives when applied to the abstract map m
AbsReplyOk(m, c, v) ==
    IF c.kind \in OpenKinds
    THEN v = (IF c.arg >= 1 THEN OkVal("meta", c.arg, 0)
              ELSE IF c.arg = 0 THEN ErrVal("LoadError") ELSE ErrVal("ParseFailed"))
    ELSE IF c.kind \in ReadKinds
    THEN v = (IF c.key \in DOMAIN m THEN ParserRead(c.kind, m[c.key], c.arg)
              ELSE ErrVal("NotLoaded"))
    ELSE IF c.kind = "HasPdf" THEN v = BoolVal(c.key \in DOMAIN m)
    ELSE IF c.kind = "ListPdfs"
    THEN /\ v = KeysVal(v.keys)
         /\ SeqToSet(v.keys) = DOMAIN m
         /\ Len(v.keys) = Cardinality(DOMAIN m)
    ELSE v = UnitVal

\* C26: the reply of each executed job is the one that applying the jobs one
\* at a time in queue order to an abstract map gives, each caller gets that
\* reply as its result, and between jobs the registry is the abstract map
C26_SequentialRefinement ==
    /\ \A p \in 1..Len(finished) :
         LET j == finished[p]
         IN  /\ j = enq[p]
             /\ AbsReplyOk(AbsState(p - 1), calls[j], calls[j].val)
             /\ Returned(j) =>
                  /\ calls[j].result.val = calls[j].val
                  /\ calls[j].result.tag =
                        (IF calls[j].val.ok THEN "Ok" ELSE "ParseError")
    /\ (actorPc = "run" /\ running = {}) =>
         /\ parsers = AbsState(Len(finished))
         /\ pdfs = AbsState(Len(finished))

\* three callers wait at the same time; the open and the read behind it have
\* been executed, the read with the data of the opened document
C26_Witness ==
    /\ Len(finished) = 2
    /\ Len(queue) = 1
    /\ \A c \in 1..3 : calls[c].caller = "awaiting"
    /\ calls[1].kind \in OpenKinds
    /\ calls[2].kind \in ReadKinds
    /\ calls[2].key = calls[1].key
    /\ calls[2].val.ok
    /\ calls[2].val.doc = calls[1].arg

\* the open of job j fails: no parser can be made of its input, or parse()
\* of the parser fails
OpenFails(j) ==
    /\ calls[j].kind \in OpenKinds
    /\ ~ParserNew(calls[j].arg) \/ ~ParserParse(calls[j].arg)

C27_FailedOpenStep ==
    \A j \in CallIds :
        (Finishes(j) /\ OpenFails(j)) =>
            /\ parsers' = parsers
            /\ pdfs' = pdfs
            /\ arc' = arc
            /\ calls[j].caller # "abandoned" =>
                 (calls'[j].tx = "sent" /\ ~calls'[j].val.ok)

\* C27: the step that finishes a failing open, whichever of the two ways it
\* fails, answers with the error and changes neither map: nothing is
\* inserted and what was stored under the key stays
C27_FailedOpenKeepsRegistry == [][C27_FailedOpenStep]_vars

\* a key was opened, a second open of it failed in parse(), and the first
\* document is still stored in both maps
C27_Witness ==
    /\ Len(finished) = 2
    /\ OpenSucceeded(finished[1])
    /\ calls[finished[2]].kind \in OpenKinds
    /\ calls[finished[2]].key = calls[finished[1]].key
    /\ ParserNew(calls[finished[2]].arg)
    /\ ~ParserParse(calls[finished[2]].arg)
    /\ Returned(finished[2])
    /\ calls[finished[2]].result.tag = "ParseError"
    /\ parsers[calls[finished[1]].key] = calls[finished[1]].arg
    /\ pdfs[calls[finished[1]].key] = calls[finished[1]].arg

\* C28: after a failed initialization no job is ever received or answered
\* by the actor, the receiver is gone and the queue is empty, whatever a call
\* returns is a transport error, and every call, enqueued before the failure
\* or made after it, comes back to its caller
C28_InitFailureNoHang ==
    /\ [](initFailed =>
            /\ startResult = "Ok"
            /\ started = <<>>
            /\ ~rxOpen /\ queue = <<>>
            /\ \A c \in 1..Len(calls) :
                 /\ ~ReplySent(c)
                 /\ Returned(c) => calls[c].result.tag \in TransportKinds
                 /\ (Returned(c) /\ Enqueued(c)) => calls[c].result.tag = "RecvError")
    /\ \A c \in CallIds :
         (initFailed /\ Issued(c)) ~> (Issued(c) /\ calls[c].caller # "awaiting")

\* initialization failed with one job already in the queue; its caller got
\* RecvError and the caller of a job sent afterwards got SendError
C28_Witness ==
    /\ initFailed
    /\ Len(calls) = 2
    /\ Enqueued(1) /\ Returned(1) /\ calls[1].result.tag = "RecvError"
    /\ ~Enqueued(2) /\ Returned(2) /\ calls[2].result.tag = "SendError"

\* reply v is of the kind that call c asked for, and carries c's own argument
OwnReply(c, v) ==
    IF c.kind \in OpenKinds
    THEN IF v.ok THEN v = OkVal("meta", c.arg, 0) ELSE v.err \in {"LoadError", "ParseFailed"}
    ELSE IF c.kind \in ReadKinds
    THEN IF v.ok THEN v.err = c.kind /\ v.arg = c.arg
         ELSE v.err \in {"NotLoaded", "PageOutOfRange"}
    ELSE IF c.kind = "HasPdf" THEN v.err = "bool"
    ELSE IF c.kind = "ListPdfs" THEN v.err = "keys"
    ELSE v = UnitVal

C29_ReplyStep ==
    \A c \in 1..Len(calls) :
        /\ calls[c].tx # "pending" =>
             (calls'[c].tx = calls[c].tx /\ calls'[c].val = calls[c].val)
        /\ (calls[c].tx = "pending" /\ calls'[c].tx \in {"sent", "failed"}) => Finishes(c)
        /\ (calls[c].tx = "pending" /\ calls'[c].tx = "sent") => OwnReply(calls[c], calls'[c].val)
        /\ calls[c].caller = "returned" => calls'[c] = calls[c]
        /\ (calls[c].caller = "awaiting" /\ calls'[c].caller = "returned" /\ calls[c].tx = "sent") =>
             calls'[c].result.val = calls[c].val

\* C29: a reply channel is written at most once, by the step that finishes
\* its own job and with a value of that job's kind and argument; the caller
\* returns that value, once
C29_OwnReplyOnce == [][C29_ReplyStep]_vars

\* two callers waited at the same time: has_pdf and list_pdfs were both
\* answered before either caller went on, each with a reply of its own kind
C29_Witness ==
    /\ Len(calls) = 2
    /\ calls[1].kind = "HasPdf" /\ calls[2].kind = "ListPdfs"
    /\ calls[1].caller = "awaiting" /\ calls[2].caller = "awaiting"
    /\ calls[1].tx = "sent" /\ calls[2].tx = "sent"
    /\ calls[1].val.err = "bool" /\ calls[2].val.err = "keys"

ReadOnlyKinds == ReadKinds \cup {"HasPdf", "ListPdfs"}
WritingKinds == OpenKinds \cup {"RemovePdf"}

\* map m has the same entry, or the same lack of one, for key x after the step
SameEntry(m, n, x) ==
    /\ x \in DOMAIN m <=> x \in DOMAIN n
    /\ x \in DOMAIN m => n[x] = m[x]

C30_FrameStep ==
    /\ \A j \in JobIds :
         Finishes(j) =>
            /\ calls[j].kind \in ReadOnlyKinds => (parsers' = parsers /\ pdfs' = pdfs)
            /\ calls[j].kind \in WritingKinds =>
                 \A x \in RegKeys \ {calls[j].key} :
                    SameEntry(parsers, parsers', x) /\ SameEntry(pdfs, pdfs', x)
    /\ (parsers' # parsers \/ pdfs' # pdfs) =>
         \E j \in JobIds : Finishes(j) /\ calls[j].kind \in WritingKinds

\* C30: the step that finishes a read-only job, successful or not, leaves
\* both maps as they are; a step changes a map only by finishing an open or
\* a remove, and then only the entry of the key the job names
C30_ReadOnlyFrame == [][C30_FrameStep]_vars

\* after an open, a read that failed and a read that succeeded, both of the
\* opened key, have returned, and the document is still in both maps
C30_Witness ==
    /\ Len(finished) = 3
    /\ OpenSucceeded(finished[1])
    /\ \A p \in 2..3 :
         /\ calls[finished[p]].kind \in ReadKinds
         /\ calls[finished[p]].key = calls[finished[1]].key
         /\ Returned(finished[p])
    /\ calls[finished[2]].result.tag = "ParseError"
    /\ calls[finished[3]].result.tag = "Ok"
    /\ parsers[calls[finished[1]].key] = calls[finished[1]].arg
    /\ pdfs[calls[finished[1]].key] = calls[finished[1]].arg

====
